---- MODULE Spec2Model ----
(***************************************************************************)
(* A model of api.py: the Seoul real-estate dashboard.  main() is a        *)
(* sequential script; pc is its position.  Texts are sequences of          *)
(* one-character strings so that substring tests, parsing and formatting   *)
(* are computed, not assumed.                                              *)
(***************************************************************************)
EXTENDS Integers, Sequences, FiniteSets, TLC

VARIABLES pc, district, dong, fetch, rawRows, results, displayed, df,
          date_range, kpi, trend, analysis, top5, i, cache, requests, now,
          map_data, messages, shown

vars == <<pc, district, dong, fetch, rawRows, results, displayed, df,
          date_range, kpi, trend, analysis, top5, i, cache, requests, now,
          map_data, messages, shown>>

-----------------------------------------------------------------------------
(* Bounds of the model.                                                    *)

\* longest raw-row sequence the whole-script specification draws
MaxRows == 3
\* longest row sequence the highlight specification draws
MaxTableRows == 6
\* longest row sequence the plain-rows specification draws
MaxPlainRows == 2
\* longest row sequence the conversion specification draws
MaxConvRows == 2

-----------------------------------------------------------------------------
(* Python values.                                                          *)

\* Python's None (an XML element's .text when the element has no text)
NoneV == <<"None">>
\* an XML row without the element: row.find(tag) is None
Absent == <<"absent">>

\* str(x) as an f-string formats it
Str(x) == IF x = NoneV THEN <<"N", "o", "n", "e">> ELSE x

\* Python's `sub in s` on two str
Contains(sub, s) ==
    \E k \in 0..(Len(s) - Len(sub)) : SubSeq(s, k + 1, k + Len(sub)) = sub

\* bool(x) of a str or None
Truthy(x) == x # NoneV /\ x # <<>>

-----------------------------------------------------------------------------
(* float64 values: nan, +inf, -inf and the finite ones, kept as reduced    *)
(* fractions n/d with d > 0.                                               *)

NaN == [k |-> "nan", n |-> 0, d |-> 1]
Inf == [k |-> "inf", n |-> 0, d |-> 1]
NegInf == [k |-> "ninf", n |-> 0, d |-> 1]

Abs(x) == IF x < 0 THEN -x ELSE x

RECURSIVE GCD(_, _)
GCD(a, b) == IF b = 0 THEN a ELSE GCD(b, a % b)

Fin(n, d) ==
    LET g == GCD(Abs(n), Abs(d))
        s == IF d < 0 THEN -1 ELSE 1
    IN  [k |-> "fin", n |-> (s * n) \div g, d |-> (s * d) \div g]

IsNull(x) == x.k = "nan"
IsFin(x) == x.k = "fin"

\* x > 0 on float64: False for nan
GtZero(x) == x.k = "inf" \/ (x.k = "fin" /\ x.n > 0)

\* bool(x) of a float64: only 0.0 is falsy (nan is truthy)
NumTruthy(x) == ~(x.k = "fin" /\ x.n = 0)

\* x < y on non-nan float64 values
Less(x, y) ==
    CASE x.k = "nan" \/ y.k = "nan" -> FALSE
      [] x.k = "ninf" -> y.k # "ninf"
      [] x.k = "inf" -> FALSE
      [] y.k = "ninf" -> FALSE
      [] y.k = "inf" -> TRUE
      [] OTHER -> x.n * y.d < y.n * x.d

\* x + y on float64
Add(x, y) ==
    CASE x.k = "nan" \/ y.k = "nan" -> NaN
      [] x.k = "inf" -> IF y.k = "ninf" THEN NaN ELSE Inf
      [] x.k = "ninf" -> IF y.k = "inf" THEN NaN ELSE NegInf
      [] y.k # "fin" -> y
      [] OTHER -> Fin(x.n * y.d + y.n * x.d, x.d * y.d)

\* x / y on float64, for a divisor y that is neither 0 nor nan nor -inf
Div(x, y) ==
    CASE x.k = "nan" -> NaN
      [] x.k = "fin" /\ y.k = "fin" -> Fin(x.n * y.d, x.d * y.n)
      [] x.k = "fin" -> Fin(0, 1)
      [] y.k = "fin" -> x
      [] OTHER -> NaN

-----------------------------------------------------------------------------
(* pandas conversions.                                                     *)

Digits == {"0", "1", "2", "3", "4", "5", "6", "7", "8", "9"}

DigitVal(c) ==
    CASE c = "0" -> 0 [] c = "1" -> 1 [] c = "2" -> 2 [] c = "3" -> 3
      [] c = "4" -> 4 [] c = "5" -> 5 [] c = "6" -> 6 [] c = "7" -> 7
      [] c = "8" -> 8 [] c = "9" -> 9

AllDigits(s) == \A k \in 1..Len(s) : s[k] \in Digits

\* the value of a non-empty string of decimal digits
RECURSIVE ParseNat(_)
ParseNat(s) ==
    IF Len(s) = 0 THEN 0
    ELSE 10 * ParseNat(SubSeq(s, 1, Len(s) - 1)) + DigitVal(s[Len(s)])

\* pd.to_numeric(x, errors='coerce') on one cell: None, the empty string and
\* text that is no number become nan; "inf", "+inf" and "-inf" are numbers.
\* The literals read here are the integer ones (no decimal point, no
\* exponent): the texts the specifications draw hold no others.
ToNumeric(s) ==
    CASE s = NoneV \/ s = <<>> -> NaN
      [] s = <<"i", "n", "f">> \/ s = <<"+", "i", "n", "f">> -> Inf
      [] s = <<"-", "i", "n", "f">> -> NegInf
      [] AllDigits(s) -> Fin(ParseNat(s), 1)
      [] Len(s) > 1 /\ s[1] = "-" /\ AllDigits(Tail(s)) ->
             Fin(-ParseNat(Tail(s)), 1)
      [] Len(s) > 1 /\ s[1] = "+" /\ AllDigits(Tail(s)) ->
             Fin(ParseNat(Tail(s)), 1)
      [] OTHER -> NaN

\* NaT, the absent timestamp; a timestamp is the number yyyymmdd
NaT == 0

IsLeap(y) == (y % 4 = 0 /\ y % 100 # 0) \/ y % 400 = 0

DaysInMonth(y, m) ==
    CASE m \in {4, 6, 9, 11} -> 30
      [] m = 2 -> IF IsLeap(y) THEN 29 ELSE 28
      [] OTHER -> 31

\* pd.to_datetime(x, format='%Y%m%d', errors='coerce') on one cell, for text
\* of eight characters or text that holds a non-digit (the texts the
\* specifications draw); the years drawn lie inside pandas' Timestamp range.
ToDatetime(s) ==
    IF s = NoneV \/ Len(s) # 8 \/ ~AllDigits(s) THEN NaT
    ELSE LET y == ParseNat(SubSeq(s, 1, 4))
             m == ParseNat(SubSeq(s, 5, 6))
             d == ParseNat(SubSeq(s, 7, 8))
         IN  IF m \in 1..12 /\ d \in 1..DaysInMonth(y, m)
             THEN y * 10000 + m * 100 + d
             ELSE NaT

\* the month of a timestamp: dt.to_period('M')
Month(t) == t \div 100

-----------------------------------------------------------------------------
(* query_real_estate: the filter over the parsed rows.  A raw row gives,   *)
(* for each tag, Absent (no such element), NoneV (an element without       *)
(* text) or the element's text.                                            *)

\* row.find(tag).text if row.find(tag) is not None else ""
ElementText(v) == IF v = Absent THEN <<>> ELSE v

\* `district in cgg_nm and (not dong or dong in stdg_nm)` raises TypeError
\* when the right operand of an evaluated `in` is None
RowRaises(row, dist, dng) ==
    LET cgg_nm == ElementText(row.CGG_NM)
        stdg_nm == ElementText(row.STDG_NM)
    IN  \/ cgg_nm = NoneV
        \/ /\ Contains(dist, cgg_nm)
           /\ dng # <<>>
           /\ stdg_nm = NoneV

\* the condition of line 49, on a row that does not raise
RowMatches(row, dist, dng) ==
    LET cgg_nm == ElementText(row.CGG_NM)
        stdg_nm == ElementText(row.STDG_NM)
    IN  /\ Contains(dist, cgg_nm)
        /\ (dng = <<>> \/ Contains(dng, stdg_nm))

\* the dict appended to filtered_results
RowData(row) ==
    [RCPT_YR |-> ElementText(row.RCPT_YR),
     CGG_NM |-> ElementText(row.CGG_NM),
     STDG_NM |-> ElementText(row.STDG_NM),
     MNO |-> ElementText(row.MNO),
     SNO |-> ElementText(row.SNO),
     BLDG_NM |-> ElementText(row.BLDG_NM),
     CTRT_DAY |-> ElementText(row.CTRT_DAY),
     THING_AMT |-> ElementText(row.THING_AMT),
     ARCH_AREA |-> ElementText(row.ARCH_AREA)]

\* the loop of lines 44-63 raises as soon as one row raises
FilterRaises(rows, dist, dng) ==
    \E k \in 1..Len(rows) : RowRaises(rows[k], dist, dng)

\* filtered_results, when no row raises
FilterRows(rows, dist, dng) ==
    LET Keep(row) == RowMatches(row, dist, dng)
        kept == SelectSeq(rows, Keep)
    IN  [k \in 1..Len(kept) |-> RowData(kept[k])]

-----------------------------------------------------------------------------
(* convert_data and the table operations of main.  A table is the sequence *)
(* of its rows; idx is the row's index label, kept by every selection.     *)

\* UnitPrice without the `> 0` test
UnitPriceNoSignTest(amount, area) ==
    IF NumTruthy(area) /\ ~IsNull(area) THEN Div(amount, area) ELSE NaN

\* the lambda of lines 81-82; None in a float column is nan
UnitPrice(amount, area) ==
    IF NumTruthy(area) /\ GtZero(area) THEN Div(amount, area) ELSE NaN

convert_data(res) ==
    [k \in 1..Len(res) |->
        LET amount == ToNumeric(res[k].THING_AMT)
            area == ToNumeric(res[k].ARCH_AREA)
        IN  [idx |-> k,
             RCPT_YR |-> res[k].RCPT_YR,
             CGG_NM |-> res[k].CGG_NM,
             STDG_NM |-> res[k].STDG_NM,
             MNO |-> res[k].MNO,
             SNO |-> res[k].SNO,
             BLDG_NM |-> res[k].BLDG_NM,
             CTRT_DAY |-> ToDatetime(res[k].CTRT_DAY),
             THING_AMT |-> amount,
             ARCH_AREA |-> area,
             UNIT_PRICE |-> UnitPrice(amount, area)]]

\* the values of a sequence
Range(s) == {s[k] : k \in 1..Len(s)}

SetMin(S) == CHOOSE x \in S : \A y \in S : x <= y
SetMax(S) == CHOOSE x \in S : \A y \in S : y <= x

\* the contract days that are not NaT
Days(t) == {t[k].CTRT_DAY : k \in 1..Len(t)} \ {NaT}

\* df[(df.CTRT_DAY >= lo) & (df.CTRT_DAY <= hi)]: a comparison with NaT is False
DateFilterRows(t, lo, hi) ==
    LET In(row) == row.CTRT_DAY # NaT /\ lo <= row.CTRT_DAY /\ row.CTRT_DAY <= hi
    IN  SelectSeq(t, In)

RECURSIVE SumSeq(_)
SumSeq(s) == IF Len(s) = 0 THEN Fin(0, 1) ELSE Add(SumSeq(Tail(s)), Head(s))

\* Series.mean(): nan values are skipped; nan when nothing is left
Mean(s) ==
    LET NotNull(x) == ~IsNull(x)
        vals == SelectSeq(s, NotNull)
    IN  IF Len(vals) = 0 THEN NaN
        ELSE LET total == SumSeq(vals)
             IN  IF IsFin(total) THEN Fin(total.n, total.d * Len(vals)) ELSE total

Amounts(t) == [k \in 1..Len(t) |-> t[k].THING_AMT]
UnitPrices(t) == [k \in 1..Len(t) |-> t[k].UNIT_PRICE]

\* lines 138-139: `col.mean() if not col.empty else 0`
KpiMean(col) == IF Len(col) = 0 THEN Fin(0, 1) ELSE Mean(col)

\* df.dropna(subset=['계약일', '단가(만원/㎡)'])
DropnaTime(t) ==
    LET Ok(row) == row.CTRT_DAY # NaT /\ ~IsNull(row.UNIT_PRICE)
    IN  SelectSeq(t, Ok)

\* groupby('년월')['단가(만원/㎡)'].mean(): one mean per month present
MonthlyMean(t) ==
    LET months == {Month(t[k].CTRT_DAY) : k \in 1..Len(t)}
        InMonth(m) == LET Is(row) == Month(row.CTRT_DAY) = m IN SelectSeq(t, Is)
    IN  {[month |-> m, mean |-> Mean(UnitPrices(InMonth(m)))] : m \in months}

\* df.dropna(subset=['단가(만원/㎡)', '건물면적(㎡)'])
DropnaAnalysis(t) ==
    LET Ok(row) == ~IsNull(row.UNIT_PRICE) /\ ~IsNull(row.ARCH_AREA)
    IN  SelectSeq(t, Ok)

\* df.dropna(subset=['물건금액(만원)'])
DropnaAmount(t) ==
    LET Ok(row) == ~IsNull(row.THING_AMT)
    IN  SelectSeq(t, Ok)

\* the number of highlighted transactions: nlargest(5, ...)
TopN == 5

\* InsertDesc putting the row before the rows of equal amount
RECURSIVE InsertDescTiesFirst(_, _)
InsertDescTiesFirst(sorted, row) ==
    IF Len(sorted) = 0 THEN <<row>>
    ELSE LET last == sorted[Len(sorted)]
         IN  IF ~Less(row.THING_AMT, last.THING_AMT)
             THEN Append(InsertDescTiesFirst(SubSeq(sorted, 1, Len(sorted) - 1), row),
                         last)
             ELSE Append(sorted, row)

\* a row put into a sequence sorted by descending amount, after the rows
\* whose amount is not smaller (a stable insertion)
RECURSIVE InsertDesc(_, _)
InsertDesc(sorted, row) ==
    IF Len(sorted) = 0 THEN <<row>>
    ELSE LET last == sorted[Len(sorted)]
         IN  IF Less(last.THING_AMT, row.THING_AMT)
             THEN Append(InsertDesc(SubSeq(sorted, 1, Len(sorted) - 1), row), last)
             ELSE Append(sorted, row)

RECURSIVE SortDesc(_)
SortDesc(t) ==
    IF Len(t) = 0 THEN <<>>
    ELSE InsertDesc(SortDesc(SubSeq(t, 1, Len(t) - 1)), t[Len(t)])

\* DataFrame.nlargest(n, '물건금액(만원)') with keep='first', on a table
\* without nan amounts: descending by amount, equal amounts in table order
nlargest(n, t) ==
    LET sorted == SortDesc(t)
    IN  SubSeq(sorted, 1, IF n < Len(sorted) THEN n ELSE Len(sorted))

\* int(x) raises on nan and on the infinities
IntRaises(x) == ~IsFin(x)

-----------------------------------------------------------------------------
(* The map loop of main and get_coordinates.                               *)

\* the literal that opens every address, 서울특별시, as one token
City == <<"Seoul">>

\* NoSubLot without the '0000' placeholder
NoSubLotBlankOnly(sno) == sno \in {<<>>, NoneV}

\* `row['부번'] in ['0000', '', None]`
NoSubLot(sno) == sno \in {<<"0", "0", "0", "0">>, <<>>, NoneV}

\* the f-strings of lines 203 and 205
BuildAddress(row) ==
    LET base == City \o <<" ">> \o Str(row.CGG_NM) \o <<" ">> \o Str(row.STDG_NM)
                     \o <<" ">> \o Str(row.MNO)
    IN  IF NoSubLot(row.SNO) THEN base ELSE base \o <<"-">> \o Str(row.SNO)

\* get_coordinates returning None
NoCoords == <<>>
\* the (latitude, longitude) pairs the provider answers with
Coords == {<<37, 127>>}
\* seconds a request to the provider may take
Latencies == {0, 1}

\* st.cache_data: the entry of an address already looked up
Cached(address) == \E e \in cache : e.address = address
CachedValue(address) == (CHOOSE e \in cache : e.address = address).coords

\* CacheStore keeping only the lookups that found coordinates
CacheStoreFoundOnly(c, address, value) ==
    IF value = <<>> THEN c ELSE c \cup {[address |-> address, coords |-> value]}

\* the entries st.cache_data holds after get_coordinates(address) returned
\* value: every return value is stored, None included
CacheStore(c, address, value) == c \cup {[address |-> address, coords |-> value]}

\* the dict appended to map_data
MapPoint(row, address, coords) ==
    [lat |-> coords[1], lon |-> coords[2], BLDG_NM |-> row.BLDG_NM,
     address |-> address, THING_AMT |-> row.THING_AMT,
     UNIT_PRICE |-> row.UNIT_PRICE]

\* lines 207-215: `if coords: map_data.append(...)`
MapAppend(m, row, address, coords) ==
    IF coords # NoCoords THEN Append(m, MapPoint(row, address, coords)) ELSE m

\* the popup of line 225: int(amount) is evaluated when the amount is truthy
PopupRaises(point) == NumTruthy(point.THING_AMT) /\ IntRaises(point.THING_AMT)

Msg(kind, about) == [kind |-> kind, about |-> about]

-----------------------------------------------------------------------------
(* Inputs of the whole-script specification.                               *)

Raw(cgg, stdg, mno, sno, bldg, day, amount, area) ==
    [RCPT_YR |-> <<"2", "0", "2", "3">>, CGG_NM |-> cgg, STDG_NM |-> stdg,
     MNO |-> mno, SNO |-> sno, BLDG_NM |-> bldg, CTRT_DAY |-> day,
     THING_AMT |-> amount, ARCH_AREA |-> area]

Jan15 == <<"2", "0", "2", "3", "0", "1", "1", "5">>
Feb20 == <<"2", "0", "2", "3", "0", "2", "2", "0">>
\* no calendar day
Feb30 == <<"2", "0", "2", "3", "0", "2", "3", "0">>
\* a day the user may pick that no sample row carries
OtherDay == ToDatetime(<<"2", "0", "2", "2", "0", "1", "0", "1">>)

\* the rows the endpoint may answer with
SampleRaw ==
    { Raw(<<"x", "a">>, <<"b", "1">>, <<"1">>, <<"0", "0", "0", "0">>, <<"K">>,
          Jan15, <<"1", "0", "0">>, <<"2", "5">>),
      Raw(<<"x", "a">>, <<"d">>, <<"1">>, <<"7">>, Absent,
          Feb20, <<"9", "0", "0">>, <<"0">>),
      Raw(<<"x", "a">>, <<"b", "1">>, <<"1">>, Absent, <<"K">>,
          Feb30, <<"x">>, <<"2", "5">>),
      Raw(<<"x", "a">>, NoneV, NoneV, NoneV, NoneV, NoneV, NoneV, NoneV),
      Raw(<<"x", "a">>, <<"b", "1">>, Absent, <<"7">>, <<"K">>,
          Jan15, <<"1", "0", "0">>, <<"2", "5">>),
      Raw(NoneV, <<"b", "1">>, <<"1">>, <<"7">>, <<"K">>,
          Jan15, <<"1", "0", "0">>, <<"2", "5">>),
      Raw(<<"c">>, <<"b", "1">>, <<"2">>, <<"0", "0", "0", "0">>, <<"K">>,
          Jan15, <<"1", "0", "0">>, <<"2", "5">>),
      Raw(Absent, Absent, <<"2">>, <<"7">>, <<"K">>,
          Jan15, <<"1", "0", "0">>, <<"2", "5">>),
      Raw(<<"x", "a">>, <<"b", "1">>, <<"2">>, NoneV, <<"K">>,
          Jan15, <<"i", "n", "f">>, <<"i", "n", "f">>) }

\* the sequences over S of at most n elements
RECURSIVE SeqsUpTo(_, _)
SeqsUpTo(S, n) ==
    IF n = 0 THEN {<<>>}
    ELSE LET shorter == SeqsUpTo(S, n - 1)
         IN  shorter \cup {Append(q, x) : q \in shorter, x \in S}

Districts == {<<>>, <<"a">>}
Dongs == {<<>>, <<"b">>}

\* what the user may leave in the date-range widget: two days in order
\* (the default is the table's first and last day), or one day only
DateRanges(t) ==
    LET pick == Days(t) \cup {OtherDay}
    IN  {r \in pick \X pick : r[1] <= r[2]} \cup {<<SetMin(Days(t))>>}

\* the widget left as it is drawn: [min_date, max_date]
DefaultRange(t) ==
    IF Days(t) = {} THEN {} ELSE {<<SetMin(Days(t)), SetMax(Days(t))>>}

NoKpi == [total_count |-> 0, avg_price |-> NaN, avg_unit_price |-> NaN]

\* time.sleep(1)
SleepSeconds == 1

-----------------------------------------------------------------------------
(* main, one action per step of the script.                                *)

Idle ==
    /\ pc = "idle"
    /\ fetch = "none" /\ rawRows = <<>> /\ results = <<>> /\ displayed = <<>>
    /\ df = <<>> /\ date_range = <<>> /\ kpi = NoKpi /\ trend = {}
    /\ analysis = <<>> /\ top5 = <<>> /\ i = 1 /\ cache = {} /\ requests = <<>>
    /\ now = 0 /\ map_data = <<>> /\ messages = {} /\ shown = {}

Init ==
    /\ Idle
    /\ district \in Districts
    /\ dong \in Dongs

\* the button is pressed: lines 109-112
Submit ==
    /\ pc = "idle"
    /\ IF district = <<>>
       THEN /\ messages' = messages \cup {Msg("warning", <<>>)}
            /\ pc' = "warned"
       ELSE /\ pc' = "query"
            /\ UNCHANGED messages
    /\ UNCHANGED <<district, dong, fetch, rawRows, results, displayed, df,
                   date_range, kpi, trend, analysis, top5, i, cache, requests,
                   now, map_data, shown>>

\* requests.get or raise_for_status raises: lines 34-39, then 116-118
QueryRequestFails ==
    /\ pc = "query"
    /\ \E kind \in {"network_error", "http_error"} : fetch' = kind
    /\ results' = <<>>
    /\ messages' = messages \cup {Msg("api_error", <<>>), Msg("no_data", <<>>)}
    /\ pc' = "nodata"
    /\ UNCHANGED <<district, dong, rawRows, displayed, df, date_range, kpi,
                   trend, analysis, top5, i, cache, requests, now, map_data,
                   shown>>

\* the body is no XML: ET.fromstring of line 41 raises outside the try
QueryParseFails ==
    /\ pc = "query"
    /\ fetch' = "bad_xml"
    /\ pc' = "crashed"
    /\ UNCHANGED <<district, dong, rawRows, results, displayed, df, date_range,
                   kpi, trend, analysis, top5, i, cache, requests, now,
                   map_data, messages, shown>>

\* the body parses into some rows of `family`: lines 41-63, then 116-118
QueryOk(family, longest) ==
    /\ pc = "query"
    /\ fetch' = "ok"
    /\ \E rows \in SeqsUpTo(family, longest) :
          /\ rawRows' = rows
          /\ IF FilterRaises(rows, district, dong)
             THEN /\ pc' = "crashed"
                  /\ UNCHANGED <<results, messages>>
             ELSE /\ results' = FilterRows(rows, district, dong)
                  /\ IF results' = <<>>
                     THEN /\ messages' = messages \cup {Msg("no_data", <<>>)}
                          /\ pc' = "nodata"
                     ELSE /\ pc' = "convert"
                          /\ UNCHANGED messages
    /\ UNCHANGED <<district, dong, displayed, df, date_range, kpi, trend,
                   analysis, top5, i, cache, requests, now, map_data, shown>>

\* lines 120-123
Convert ==
    /\ pc = "convert"
    /\ df' = convert_data(results)
    /\ displayed' = df'
    /\ shown' = shown \cup {"table", "download"}
    /\ pc' = "datefilter"
    /\ UNCHANGED <<district, dong, fetch, rawRows, results, date_range, kpi,
                   trend, analysis, top5, i, cache, requests, now, map_data,
                   messages>>

\* lines 126-132, the widget returning one of `ranges`
DateFilterWith(ranges) ==
    /\ pc = "datefilter"
    /\ IF Days(df) # {}
       THEN \E dr \in ranges :
               /\ date_range' = dr
               /\ df' = IF Len(dr) = 2 THEN DateFilterRows(df, dr[1], dr[2]) ELSE df
       ELSE UNCHANGED <<date_range, df>>
    /\ pc' = "kpi"
    /\ UNCHANGED <<district, dong, fetch, rawRows, results, displayed, kpi,
                   trend, analysis, top5, i, cache, requests, now, map_data,
                   messages, shown>>

\* lines 135-142
Kpi ==
    /\ pc = "kpi"
    /\ kpi' = [total_count |-> Len(df),
               avg_price |-> KpiMean(Amounts(df)),
               avg_unit_price |-> KpiMean(UnitPrices(df))]
    /\ shown' = shown \cup {"kpi"}
    /\ pc' = "trend"
    /\ UNCHANGED <<district, dong, fetch, rawRows, results, displayed, df,
                   date_range, trend, analysis, top5, i, cache, requests, now,
                   map_data, messages>>

\* lines 145-156
Trend ==
    /\ pc = "trend"
    /\ LET df_time == DropnaTime(df)
       IN  IF df_time # <<>>
           THEN /\ trend' = MonthlyMean(df_time)
                /\ shown' = shown \cup {"line_chart"}
                /\ UNCHANGED messages
           ELSE /\ messages' = messages \cup {Msg("no_trend", <<>>)}
                /\ UNCHANGED <<trend, shown>>
    /\ pc' = "analysis"
    /\ UNCHANGED <<district, dong, fetch, rawRows, results, displayed, df,
                   date_range, kpi, analysis, top5, i, cache, requests, now,
                   map_data>>

\* lines 159-177
Analysis ==
    /\ pc = "analysis"
    /\ LET df_analysis == DropnaAnalysis(df)
       IN  IF df_analysis # <<>>
           THEN /\ analysis' = df_analysis
                /\ shown' = shown \cup {"histogram", "scatter"}
                /\ UNCHANGED messages
           ELSE /\ messages' = messages \cup {Msg("no_analysis", <<>>)}
                /\ UNCHANGED <<analysis, shown>>
    /\ pc' = "top5"
    /\ UNCHANGED <<district, dong, fetch, rawRows, results, displayed, df,
                   date_range, kpi, trend, top5, i, cache, requests, now,
                   map_data>>

\* lines 180-194: the cards are drawn with int(amount)
Top5 ==
    /\ pc = "top5"
    /\ top5' = nlargest(TopN, DropnaAmount(df))
    /\ IF top5' = <<>>
       THEN /\ messages' = messages \cup {Msg("no_top5", <<>>)}
            /\ pc' = "map"
            /\ UNCHANGED shown
       ELSE IF \E k \in 1..Len(top5') : IntRaises(top5'[k].THING_AMT)
            THEN /\ pc' = "crashed"
                 /\ UNCHANGED <<messages, shown>>
            ELSE /\ shown' = shown \cup {"top5"}
                 /\ pc' = "map"
                 /\ UNCHANGED messages
    /\ UNCHANGED <<district, dong, fetch, rawRows, results, displayed, df,
                   date_range, kpi, trend, analysis, i, cache, requests, now,
                   map_data>>

\* line 201: a row without a main lot number is passed over
MapNoLot ==
    /\ pc = "map" /\ i <= Len(df)
    /\ ~Truthy(df[i].MNO)
    /\ i' = i + 1
    /\ UNCHANGED <<pc, district, dong, fetch, rawRows, results, displayed, df,
                   date_range, kpi, trend, analysis, top5, cache, requests,
                   now, map_data, messages, shown>>

\* get_coordinates answered by st.cache_data: no request is sent
MapCacheHit ==
    /\ pc = "map" /\ i <= Len(df)
    /\ Truthy(df[i].MNO)
    /\ LET address == BuildAddress(df[i])
       IN  /\ Cached(address)
           /\ map_data' = MapAppend(map_data, df[i], address, CachedValue(address))
    /\ i' = i + 1
    /\ UNCHANGED <<pc, district, dong, fetch, rawRows, results, displayed, df,
                   date_range, kpi, trend, analysis, top5, cache, requests,
                   now, messages, shown>>

\* get_coordinates, lines 17-23: the provider finds the address
GeocodeFound ==
    /\ pc = "map" /\ i <= Len(df)
    /\ Truthy(df[i].MNO)
    /\ LET address == BuildAddress(df[i])
       IN  /\ ~Cached(address)
           /\ requests' = Append(requests, [address |-> address, at |-> now,
                                          answer |-> "found"])
           /\ \E coords \in Coords :
                 /\ cache' = CacheStore(cache, address, coords)
                 /\ map_data' = MapAppend(map_data, df[i], address, coords)
    /\ \E latency \in Latencies : now' = now + latency + SleepSeconds
    /\ i' = i + 1
    /\ UNCHANGED <<pc, district, dong, fetch, rawRows, results, displayed, df,
                   date_range, kpi, trend, analysis, top5, messages, shown>>

\* get_coordinates, lines 17-26: the provider finds nothing
GeocodeNotFound ==
    /\ pc = "map" /\ i <= Len(df)
    /\ Truthy(df[i].MNO)
    /\ LET address == BuildAddress(df[i])
       IN  /\ ~Cached(address)
           /\ requests' = Append(requests, [address |-> address, at |-> now,
                                          answer |-> "none"])
           /\ cache' = CacheStore(cache, address, NoCoords)
           /\ map_data' = MapAppend(map_data, df[i], address, NoCoords)
    /\ \E latency \in Latencies : now' = now + latency + SleepSeconds
    /\ i' = i + 1
    /\ UNCHANGED <<pc, district, dong, fetch, rawRows, results, displayed, df,
                   date_range, kpi, trend, analysis, top5, messages, shown>>

\* get_coordinates, lines 19 and 24-26: geocode raises, the sleep is skipped
GeocodeRaises ==
    /\ pc = "map" /\ i <= Len(df)
    /\ Truthy(df[i].MNO)
    /\ LET address == BuildAddress(df[i])
       IN  /\ ~Cached(address)
           /\ requests' = Append(requests, [address |-> address, at |-> now,
                                          answer |-> "raised"])
           /\ messages' = messages \cup {Msg("geocoding_error", address)}
           /\ cache' = CacheStore(cache, address, NoCoords)
           /\ map_data' = MapAppend(map_data, df[i], address, NoCoords)
    /\ \E latency \in Latencies : now' = now + latency
    /\ i' = i + 1
    /\ UNCHANGED <<pc, district, dong, fetch, rawRows, results, displayed, df,
                   date_range, kpi, trend, analysis, top5, shown>>

\* lines 216-236
RenderMap ==
    /\ pc = "map" /\ i > Len(df)
    /\ IF map_data = <<>>
       THEN /\ messages' = messages \cup {Msg("no_map", <<>>)}
            /\ pc' = "done"
            /\ UNCHANGED shown
       ELSE IF \E k \in 1..Len(map_data) : PopupRaises(map_data[k])
            THEN /\ pc' = "crashed"
                 /\ UNCHANGED <<messages, shown>>
            ELSE /\ shown' = shown \cup {"map"}
                 /\ pc' = "done"
                 /\ UNCHANGED messages
    /\ UNCHANGED <<district, dong, fetch, rawRows, results, displayed, df,
                   date_range, kpi, trend, analysis, top5, i, cache, requests,
                   now, map_data>>

QueryFilters == QueryOk(SampleRaw, MaxRows)

DateFilter == DateFilterWith(DateRanges(df))

Next ==
    \/ Submit
    \/ QueryRequestFails
    \/ QueryParseFails
    \/ QueryFilters
    \/ Convert
    \/ DateFilter
    \/ Kpi
    \/ Trend
    \/ Analysis
    \/ Top5
    \/ MapNoLot
    \/ MapCacheHit
    \/ GeocodeFound
    \/ GeocodeNotFound
    \/ GeocodeRaises
    \/ RenderMap

Spec == Init /\ [][Next]_vars

-----------------------------------------------------------------------------
(* The script on rows that differ in amount and area only: convert_data.   *)

ConvAmounts ==
    {<<"5", "0", "0", "0", "0">>, <<"-", "7">>, <<"x">>, <<"i", "n", "f">>, Absent}
ConvAreas ==
    {<<"2", "5">>, <<"0">>, <<"-", "5">>, <<"x">>, <<"i", "n", "f">>, NoneV}

ConvRaw ==
    {Raw(<<"x", "a">>, <<"b", "1">>, Absent, Absent, <<"K">>, Jan15, a, r) :
        a \in ConvAmounts, r \in ConvAreas}

InitOneDistrict ==
    /\ Idle
    /\ district = <<"a">>
    /\ dong = <<>>

QueryConv == QueryOk(ConvRaw, MaxConvRows)

NextConvert ==
    \/ Submit
    \/ QueryConv
    \/ Convert

SpecConvert == InitOneDistrict /\ [][NextConvert]_vars

-----------------------------------------------------------------------------
(* The script on rows that differ in amount only and have no lot number,   *)
(* the date-range widget left at its default.                              *)

TopAmounts ==
    {<<"1", "0", "0">>, <<"5", "0", "0">>, <<"9", "0", "0">>, <<"x">>}

TopRaw ==
    {Raw(<<"x", "a">>, <<"b", "1">>, Absent, Absent, <<"K">>, Jan15, a, <<"2", "5">>) :
        a \in TopAmounts}

QueryTop == QueryOk(TopRaw, MaxTableRows)

DateFilterDefault == DateFilterWith(DefaultRange(df))

NextTop ==
    \/ Submit
    \/ QueryTop
    \/ Convert
    \/ DateFilterDefault
    \/ Kpi
    \/ Trend
    \/ Analysis
    \/ Top5
    \/ MapNoLot
    \/ RenderMap

SpecTop == InitOneDistrict /\ [][NextTop]_vars

-----------------------------------------------------------------------------
(* The script on rows whose elements all carry text or are absent, the     *)
(* date-range widget left at its default.                                  *)

PlainRaw ==
    {Raw(<<"x", "a">>, <<"b", "1">>, mno, <<"0", "0", "0", "0">>, <<"K">>, day, a,
         <<"2", "5">>) :
        mno \in {<<"1">>, <<"2">>, Absent},
        day \in {Jan15, Feb30},
        a \in {<<"1", "0", "0">>, <<"x">>}}

QueryPlain == QueryOk(PlainRaw, MaxPlainRows)

NextPlain ==
    \/ Submit
    \/ QueryPlain
    \/ Convert
    \/ DateFilterDefault
    \/ Kpi
    \/ Trend
    \/ Analysis
    \/ Top5
    \/ MapNoLot
    \/ MapCacheHit
    \/ GeocodeFound
    \/ GeocodeNotFound
    \/ GeocodeRaises
    \/ RenderMap

SpecPlain == InitOneDistrict /\ [][NextPlain]_vars

-----------------------------------------------------------------------------
(* The claims.                                                             *)

Defined(x) == ~IsNull(x)

\* a field that is missing (no element, or an element without text) read as ""
FieldOrEmpty(v) == IF v \in {Absent, NoneV} THEN <<>> ELSE v

\* the filter loop raised: the script stopped before any table was drawn
QueryRaised == fetch = "ok" /\ pc = "crashed" /\ "table" \notin shown

\* the rows query_real_estate is to return
MatchingRows(rows, dist, dng) ==
    LET Match(row) ==
            /\ Contains(dist, FieldOrEmpty(row.CGG_NM))
            /\ (dng = <<>> \/ Contains(dng, FieldOrEmpty(row.STDG_NM)))
    IN  SelectSeq(rows, Match)

\* C1: whenever the response parsed, query_real_estate returns exactly the
\* rows, in order, whose district field contains the district and, when a
\* sub-district is given, whose sub-district field contains it.
C1_FilterContract ==
    fetch = "ok" =>
        /\ ~QueryRaised
        /\ Len(results) = Len(MatchingRows(rawRows, district, dong))
        /\ \A k \in 1..Len(results) :
              results[k] = RowData(MatchingRows(rawRows, district, dong)[k])

\* C2: a fetch failure of any kind (network, HTTP status, unparsable XML) is
\* reported, gives an empty result, ends the run in the no-data state with
\* nothing shown, and never escapes as an unhandled error.
C2_FetchFailureHandled ==
    fetch \in {"network_error", "http_error", "bad_xml"} =>
        /\ pc = "nodata"
        /\ results = <<>>
        /\ Msg("api_error", <<>>) \in messages
        /\ shown = {}

\* C3: the filter never fails on a row with missing fields, and every missing
\* field is the empty string in the output row, never a null.
C3_MissingFieldsEmpty ==
    fetch = "ok" =>
        /\ ~QueryRaised
        /\ \A k \in 1..Len(results) :
              \A f \in DOMAIN results[k] : results[k][f] # NoneV

\* what "the unit price equals amount / area" says of three float64 values
IsQuotient(u, a, r) ==
    CASE IsFin(a) /\ IsFin(r) -> IsFin(u) /\ u.n * a.d * r.n = a.n * r.d * u.d
      [] IsFin(a) -> u = Fin(0, 1)
      [] IsFin(r) -> u = a
      [] OTHER -> FALSE

\* C4 as stated: in every row of the table convert_data returns, the unit
\* price is defined iff the amount is defined, the area is defined and the
\* area is above 0, and when defined it is amount / area.
C4_UnitPriceIff ==
    \A k \in 1..Len(displayed) :
        LET row == displayed[k]
        IN  /\ Defined(row.UNIT_PRICE) <=>
                   /\ Defined(row.THING_AMT)
                   /\ Defined(row.ARCH_AREA)
                   /\ GtZero(row.ARCH_AREA)
            /\ Defined(row.UNIT_PRICE) =>
                   IsQuotient(row.UNIT_PRICE, row.THING_AMT, row.ARCH_AREA)

\* C4 as amended: the unit price is defined iff the amount is defined, the
\* area is defined and above 0, and the two are not both infinite; when
\* defined it is amount / area.
C4_UnitPriceIffFiniteQuotient ==
    \A k \in 1..Len(displayed) :
        LET row == displayed[k]
        IN  /\ Defined(row.UNIT_PRICE) <=>
                   /\ Defined(row.THING_AMT)
                   /\ Defined(row.ARCH_AREA)
                   /\ GtZero(row.ARCH_AREA)
                   /\ (IsFin(row.THING_AMT) \/ IsFin(row.ARCH_AREA))
            /\ Defined(row.UNIT_PRICE) =>
                   IsQuotient(row.UNIT_PRICE, row.THING_AMT, row.ARCH_AREA)

\* a converted table with amount 50000 over area 25 priced 2000, beside a
\* row of amount 50000 and area 0 without a unit price
C4_Witness ==
    /\ \E k \in 1..Len(displayed) :
          /\ displayed[k].THING_AMT = Fin(50000, 1)
          /\ displayed[k].ARCH_AREA = Fin(25, 1)
          /\ displayed[k].UNIT_PRICE = Fin(2000, 1)
    /\ \E k \in 1..Len(displayed) :
          /\ displayed[k].THING_AMT = Fin(50000, 1)
          /\ displayed[k].ARCH_AREA = Fin(0, 1)
          /\ IsNull(displayed[k].UNIT_PRICE)

\* C5: any two successive requests sent to the geocoding provider are at
\* least one second apart, also after a request that raised.
C5_RequestSpacing ==
    \A k \in 1..(Len(requests) - 1) : requests[k + 1].at - requests[k].at >= 1

\* a row one of whose contract day, amount or area did not parse
ParseFailed(row) ==
    row.CTRT_DAY = NaT \/ IsNull(row.THING_AMT) \/ IsNull(row.ARCH_AREA)

\* a row whose contract day lies outside the two days the user chose
OutOfRange(row) ==
    /\ Len(date_range) = 2
    /\ row.CTRT_DAY # NaT
    /\ (row.CTRT_DAY < date_range[1] \/ row.CTRT_DAY > date_range[2])

\* the rows the table keeps if no row is dropped for a failed parse
KeptParseFailures ==
    {k \in 1..Len(displayed) : ParseFailed(displayed[k]) /\ ~OutOfRange(displayed[k])}

\* C6: a row whose contract day, amount or area failed to parse is never
\* dropped for that: it stays in the current table through every later
\* step, the date-range filter included, and the row-count KPI counts it.
C6_ParseFailuresKept ==
    /\ \A k \in KeptParseFailures :
          \E j \in 1..Len(df) : df[j].idx = displayed[k].idx
    /\ "kpi" \in shown => kpi.total_count >= Cardinality(KeptParseFailures)

\* C7: each KPI mean is 0 whenever no value is there to average: the current
\* table has no rows, or none of its rows has the field defined.
C7_EmptyMeanIsZero ==
    "kpi" \in shown =>
        /\ (\A k \in 1..Len(df) : IsNull(df[k].THING_AMT)) =>
               kpi.avg_price = Fin(0, 1)
        /\ (\A k \in 1..Len(df) : IsNull(df[k].UNIT_PRICE)) =>
               kpi.avg_unit_price = Fin(0, 1)

\* the rows of the current table that have an amount
WithAmount == {k \in 1..Len(df) : Defined(df[k].THING_AMT)}

\* C8: the highlight holds the min(5, k) rows of largest amount among the k
\* rows with a defined amount, in descending order of amount, rows of equal
\* amount in table order, the earlier row winning a tie at the cut-off.
C8_TopFive ==
    pc \in {"map", "done"} =>
        /\ Len(top5) = IF Cardinality(WithAmount) < 5
                       THEN Cardinality(WithAmount) ELSE 5
        /\ \A k \in 1..Len(top5) : \E j \in WithAmount : df[j] = top5[k]
        /\ \A k, l \in 1..Len(top5) :
              k < l =>
                  /\ ~Less(top5[k].THING_AMT, top5[l].THING_AMT)
                  /\ top5[k].THING_AMT = top5[l].THING_AMT =>
                         top5[k].idx < top5[l].idx
        /\ \A j \in WithAmount :
              df[j] \notin Range(top5) =>
                  \A k \in 1..Len(top5) :
                      \/ Less(df[j].THING_AMT, top5[k].THING_AMT)
                      \/ /\ df[j].THING_AMT = top5[k].THING_AMT
                         /\ top5[k].idx < df[j].idx

\* a highlight of five with two rows of equal amount in it, cut off between
\* two rows of equal amount
C8_Witness ==
    /\ pc = "map"
    /\ Len(top5) = 5
    /\ \E k, l \in 1..5 : k < l /\ top5[k].THING_AMT = top5[l].THING_AMT
    /\ \E j \in WithAmount :
          df[j] \notin Range(top5) /\ df[j].THING_AMT = top5[5].THING_AMT

\* the rows of the current table the map loop has passed
Passed == 1..(i - 1)

HasMainLot(row) == row.MNO # <<>> /\ row.MNO # NoneV

\* the address C9 gives a row
ExpectedAddress(row) ==
    LET main == City \o <<" ">> \o Str(row.CGG_NM) \o <<" ">> \o Str(row.STDG_NM)
                     \o <<" ">> \o Str(row.MNO)
    IN  IF row.SNO = NoneV \/ row.SNO = <<>> \/ row.SNO = <<"0", "0", "0", "0">>
        THEN main
        ELSE main \o <<"-">> \o row.SNO

ExpectedAddresses == {ExpectedAddress(df[k]) : k \in {j \in Passed : HasMainLot(df[j])}}

\* C9: an address is built only for a row with a main lot number; it is
\* "<city> <district> <sub-district> <main-lot>" exactly when the sub-lot is
\* absent, empty or "0000", and that followed by "-<sub-lot>" otherwise; a row
\* without a main lot causes no request and no map point.
C9_Addresses ==
    /\ {requests[k].address : k \in 1..Len(requests)} = ExpectedAddresses
    /\ {e.address : e \in cache} = ExpectedAddresses
    /\ {map_data[k].address : k \in 1..Len(map_data)} \subseteq ExpectedAddresses
    /\ Len(map_data) <= Cardinality({j \in Passed : HasMainLot(df[j])})

\* the loop has ended having asked for an address without sub-lot (sub-lot
\* "0000"), for one with sub-lot 7, and having passed a row without main lot
C9_Witness ==
    /\ pc = "done"
    /\ \E j, k, l \in Passed :
          /\ HasMainLot(df[j]) /\ df[j].SNO = <<"0", "0", "0", "0">>
          /\ \E q \in 1..Len(requests) :
                requests[q].address =
                    City \o <<" ", "x", "a", " ", "b", "1", " ", "1">>
          /\ HasMainLot(df[k]) /\ df[k].SNO = <<"7">>
          /\ \E q \in 1..Len(requests) :
                requests[q].address =
                    City \o <<" ", "x", "a", " ", "d", " ", "1", "-", "7">>
          /\ ~HasMainLot(df[l])

====
